---- MODULE Spec2Model ----
(***************************************************************************)
(* Field selection of `below dump`: resolution of --fields tokens into     *)
(* option fields (DumpOptionField::from_str), their rendering              *)
(* (to_string), the expansion of aggregate groups (AggField::expand,       *)
(* expand_fields), and the lazily built per-domain long help strings       *)
(* (the *_LONG_ABOUT statics).  Source: below/dump/src/command.rs.         *)
(***************************************************************************)
EXTENDS Naturals, Sequences, FiniteSets, TLC

VARIABLES
    mode,     \* which part of the program this behaviour exercises
    domain,   \* the dump subcommand (the pair of type parameters F, A)
    detail,   \* GeneralOpt.detail
    hist,     \* resolver: the chain of values from_str / to_string produced
    fields,   \* expansion: the option-field list handed to expand_fields
    out,      \* expansion: what expand_fields / expand returned (or None)
    opts,     \* request: the other options typed (--pattern, --default,
              \* --everything)
    argv,     \* request: the tokens typed after --fields (none: no --fields)
    parsed,   \* request: the option fields resolved so far
    err,      \* request: the error of the failed from_str (or None)
    pc,       \* request: position of the request
    cell,     \* lazy: per domain, the once-cell of the long help string
    tpc,      \* lazy: per thread, its position inside Lazy::force
    tdom,     \* lazy: per thread, the domain whose help it is accessing
    tbuf,     \* lazy: per thread, the string its build step has made so far
    tgot,     \* lazy: per thread, the values its accesses returned
    builds    \* lazy: per domain, how many times the build step was started

vars == <<mode, domain, detail, opts, hist, fields, out, argv, parsed, err,
          pc, cell, tpc, tdom, tbuf, tgot, builds>>

None == [tag |-> "None"]

(***************************************************************************)
(* Bounds of the model.                                                    *)
(***************************************************************************)
\* Letter positions of a typed token that may be upper case.
MaxUpper == 1
\* Longest option-field list handed to expand_fields.
MaxFields == 3
\* Longest --fields token list of a request.
MaxArgs == 2
\* Number of threads that access the long help strings.
NThreads == 2
\* Accesses each thread makes to long help strings.
MaxAccess == 9
\* Accesses of each thread that the fair specification follows.
MaxRace == 3
\* Longest chain of from_str / to_string applications followed.
MaxChain == 4
\* Calls of expand followed in one behaviour.
MaxCalls == 2

(***************************************************************************)
(* Strings.  A token is its lower-case form together with the set of its   *)
(* letter positions typed in upper case, so str::to_lowercase and a        *)
(* case-sensitive comparison are both expressible.                         *)
(***************************************************************************)
Token(s, up) == [lower |-> s, upper |-> up]

\* A string literal of the source: all lower case.
Lit(s) == Token(s, {})

\* str::to_lowercase
ToLowercase(t) == Token(t.lower, {})

Casings == SUBSET (1..MaxUpper)

(***************************************************************************)
(* Enumerations.  An enumeration is the ordered list of its variants, each *)
(* <<variant, canonical name>>; a variant of a nested enumeration is the   *)
(* pair <<outer variant, inner variant>> and its name "outer.inner".       *)
(***************************************************************************)
Unit1(id, name) == << <<id>>, name >>

Nested(id, name, E) ==
    [i \in 1..Len(E) |-> << <<id, E[i][1][1]>>, name \o "." \o E[i][2] >>]

\* enum_iterator::all::<E>()
EnumAll(E) == [i \in 1..Len(E) |-> E[i][1]]

EnumNames(E) == [i \in 1..Len(E) |-> E[i][2]]

Range(s) == {s[i] : i \in 1..Len(s)}

\* crate::CommonField
CommonField == << Unit1("Timestamp", "timestamp"), Unit1("Datetime", "datetime") >>

\* ---- system ----
SingleCpuModelFieldId ==
    << Unit1("Idx", "idx"), Unit1("UsagePct", "usage_pct"),
       Unit1("UserPct", "user_pct"), Unit1("IdlePct", "idle_pct"),
       Unit1("SystemPct", "system_pct") >>

MemoryModelFieldId ==
    << Unit1("Total", "total"), Unit1("Free", "free"),
       Unit1("Available", "available") >>

VmModelFieldId ==
    << Unit1("PgpginPerSec", "pgpgin_per_sec"),
       Unit1("PgpgoutPerSec", "pgpgout_per_sec") >>

ProcStatModelFieldId ==
    << Unit1("TotalInterruptCt", "total_interrupt_ct"),
       Unit1("ContextSwitches", "context_switches") >>

SystemModelFieldId ==
    << Unit1("Hostname", "hostname"), Unit1("KernelVersion", "kernel_version"),
       Unit1("OsRelease", "os_release") >>
    \o Nested("Stat", "stat", ProcStatModelFieldId)
    \o Nested("Cpu", "cpu", SingleCpuModelFieldId)
    \o Nested("Mem", "mem", MemoryModelFieldId)
    \o Nested("Vm", "vm", VmModelFieldId)

SystemAggField ==
    << Unit1("Cpu", "cpu"), Unit1("Mem", "mem"), Unit1("Vm", "vm"),
       Unit1("Stat", "stat") >>

\* ---- disk ----
SingleDiskModelFieldId ==
    << Unit1("Name", "name"),
       Unit1("DiskTotalBytesPerSec", "disk_total_bytes_per_sec"),
       Unit1("ReadBytesPerSec", "read_bytes_per_sec"),
       Unit1("WriteBytesPerSec", "write_bytes_per_sec"),
       Unit1("DiscardBytesPerSec", "discard_bytes_per_sec"),
       Unit1("Major", "major"), Unit1("Minor", "minor"),
       Unit1("ReadCompleted", "read_completed"),
       Unit1("ReadMerged", "read_merged"),
       Unit1("ReadSectors", "read_sectors"),
       Unit1("TimeSpendReadMs", "time_spend_read_ms"),
       Unit1("WriteCompleted", "write_completed"),
       Unit1("WriteMerged", "write_merged"),
       Unit1("WriteSectors", "write_sectors"),
       Unit1("TimeSpendWriteMs", "time_spend_write_ms"),
       Unit1("DiscardCompleted", "discard_completed"),
       Unit1("DiscardMerged", "discard_merged"),
       Unit1("DiscardSectors", "discard_sectors"),
       Unit1("TimeSpendDiscardMs", "time_spend_discard_ms"),
       Unit1("DiskUsage", "disk_usage"),
       Unit1("PartitionSize", "partition_size"),
       Unit1("FilesystemType", "filesystem_type") >>

DiskAggField ==
    << Unit1("Read", "read"), Unit1("Write", "write"),
       Unit1("Discard", "discard"), Unit1("FsInfo", "fs_info") >>

\* ---- btrfs ----
BtrfsModelFieldId ==
    << Unit1("Name", "name"), Unit1("DiskFraction", "disk_fraction"),
       Unit1("DiskBytes", "disk_bytes") >>

BtrfsAggField == << Unit1("DiskUsage", "disk_usage") >>

\* ---- process ----
ProcessCpuModelFieldId ==
    << Unit1("UsagePct", "usage_pct"), Unit1("UserPct", "user_pct"),
       Unit1("SystemPct", "system_pct"), Unit1("NumThreads", "num_threads") >>

ProcessMemoryModelFieldId ==
    << Unit1("MinorfaultsPerSec", "minorfaults_per_sec"),
       Unit1("RssBytes", "rss_bytes"), Unit1("VmSize", "vm_size") >>

ProcessIoModelFieldId ==
    << Unit1("RbytesPerSec", "rbytes_per_sec"),
       Unit1("WbytesPerSec", "wbytes_per_sec"),
       Unit1("RwbytesPerSec", "rwbytes_per_sec") >>

SingleProcessModelFieldId ==
    << Unit1("Pid", "pid"), Unit1("Ppid", "ppid"), Unit1("Comm", "comm"),
       Unit1("State", "state"), Unit1("UptimeSecs", "uptime_secs"),
       Unit1("Cgroup", "cgroup") >>
    \o Nested("Io", "io", ProcessIoModelFieldId)
    \o Nested("Mem", "mem", ProcessMemoryModelFieldId)
    \o Nested("Cpu", "cpu", ProcessCpuModelFieldId)
    \o << Unit1("Cmdline", "cmdline"), Unit1("ExePath", "exe_path") >>

ProcessAggField ==
    << Unit1("Cpu", "cpu"), Unit1("Mem", "mem"), Unit1("Io", "io") >>

\* ---- cgroup ----
CgroupCpuModelFieldId ==
    << Unit1("UsagePct", "usage_pct"), Unit1("UserPct", "user_pct"),
       Unit1("SystemPct", "system_pct") >>

CgroupMemoryModelFieldId ==
    << Unit1("Total", "total"), Unit1("Swap", "swap"), Unit1("Anon", "anon") >>

CgroupIoModelFieldId ==
    << Unit1("RbytesPerSec", "rbytes_per_sec"),
       Unit1("WbytesPerSec", "wbytes_per_sec"),
       Unit1("RiosPerSec", "rios_per_sec") >>

CgroupPressureModelFieldId ==
    << Unit1("CpuSomePct", "cpu_some_pct"), Unit1("CpuFullPct", "cpu_full_pct"),
       Unit1("IoSomePct", "io_some_pct"), Unit1("IoFullPct", "io_full_pct"),
       Unit1("MemorySomePct", "memory_some_pct"),
       Unit1("MemoryFullPct", "memory_full_pct") >>

SingleCgroupModelFieldId ==
    << Unit1("Name", "name"), Unit1("FullPath", "full_path"),
       Unit1("InodeNumber", "inode_number") >>
    \o Nested("Cpu", "cpu", CgroupCpuModelFieldId)
    \o Nested("Mem", "mem", CgroupMemoryModelFieldId)
    \o Nested("Io", "io", CgroupIoModelFieldId)
    \o Nested("Pressure", "pressure", CgroupPressureModelFieldId)

CgroupAggField ==
    << Unit1("Cpu", "cpu"), Unit1("Mem", "mem"), Unit1("Io", "io"),
       Unit1("Pressure", "pressure") >>

\* ---- iface ----
SingleNetModelFieldId ==
    << Unit1("Interface", "interface"),
       Unit1("RxBytesPerSec", "rx_bytes_per_sec"),
       Unit1("TxBytesPerSec", "tx_bytes_per_sec"),
       Unit1("ThroughputPerSec", "throughput_per_sec"),
       Unit1("RxPacketsPerSec", "rx_packets_per_sec"),
       Unit1("TxPacketsPerSec", "tx_packets_per_sec"),
       Unit1("Collisions", "collisions"), Unit1("Multicast", "multicast"),
       Unit1("RxBytes", "rx_bytes"), Unit1("RxCompressed", "rx_compressed"),
       Unit1("RxCrcErrors", "rx_crc_errors"), Unit1("RxDropped", "rx_dropped"),
       Unit1("RxErrors", "rx_errors"), Unit1("RxFifoErrors", "rx_fifo_errors"),
       Unit1("RxFrameErrors", "rx_frame_errors"),
       Unit1("RxLengthErrors", "rx_length_errors"),
       Unit1("RxMissedErrors", "rx_missed_errors"),
       Unit1("RxNohandler", "rx_nohandler"),
       Unit1("RxOverErrors", "rx_over_errors"),
       Unit1("RxPackets", "rx_packets"),
       Unit1("TxAbortedErrors", "tx_aborted_errors"),
       Unit1("TxBytes", "tx_bytes"),
       Unit1("TxCarrierErrors", "tx_carrier_errors"),
       Unit1("TxCompressed", "tx_compressed"), Unit1("TxDropped", "tx_dropped"),
       Unit1("TxErrors", "tx_errors"), Unit1("TxFifoErrors", "tx_fifo_errors"),
       Unit1("TxHeartbeatErrors", "tx_heartbeat_errors"),
       Unit1("TxPackets", "tx_packets"),
       Unit1("TxWindowErrors", "tx_window_errors") >>

IfaceAggField == << Unit1("Rate", "rate"), Unit1("Rx", "rx"), Unit1("Tx", "tx") >>

\* ---- network and transport ----
IpModelFieldId ==
    << Unit1("ForwardingPktsPerSec", "forwarding_pkts_per_sec"),
       Unit1("InReceivesPktsPerSec", "in_receives_pkts_per_sec") >>

Ip6ModelFieldId ==
    << Unit1("InReceivesPktsPerSec", "in_receives_pkts_per_sec"),
       Unit1("OutRequestsPktsPerSec", "out_requests_pkts_per_sec") >>

IcmpModelFieldId ==
    << Unit1("InMsgsPerSec", "in_msgs_per_sec"),
       Unit1("OutMsgsPerSec", "out_msgs_per_sec") >>

Icmp6ModelFieldId ==
    << Unit1("InMsgsPerSec", "in_msgs_per_sec"),
       Unit1("InErrors", "in_errors") >>

TcpModelFieldId ==
    << Unit1("ActiveOpensPerSec", "active_opens_per_sec"),
       Unit1("RetransSegsPerSec", "retrans_segs_per_sec") >>

UdpModelFieldId ==
    << Unit1("InDatagramsPktsPerSec", "in_datagrams_pkts_per_sec"),
       Unit1("InErrors", "in_errors") >>

Udp6ModelFieldId ==
    << Unit1("InDatagramsPktsPerSec", "in_datagrams_pkts_per_sec"),
       Unit1("NoPorts", "no_ports") >>

NetworkModelFieldId ==
    Nested("Tcp", "tcp", TcpModelFieldId)
    \o Nested("Ip", "ip", IpModelFieldId)
    \o Nested("Ip6", "ip6", Ip6ModelFieldId)
    \o Nested("Icmp", "icmp", IcmpModelFieldId)
    \o Nested("Icmp6", "icmp6", Icmp6ModelFieldId)
    \o Nested("Udp", "udp", UdpModelFieldId)
    \o Nested("Udp6", "udp6", Udp6ModelFieldId)

NetworkAggField ==
    << Unit1("Ip", "ip"), Unit1("Ip6", "ip6"), Unit1("Icmp", "icmp"),
       Unit1("Icmp6", "icmp6") >>

TransportAggField ==
    << Unit1("Tcp", "tcp"), Unit1("Udp", "udp"), Unit1("Udp6", "udp6") >>

(***************************************************************************)
(* A test instantiation of the generic resolver whose namespaces collide:  *)
(* a group and a leaf field are both named like the common field           *)
(* "datetime", and a leaf field is named like the group "grp".             *)
(***************************************************************************)
TestFieldId ==
    << Unit1("Datetime", "datetime"), Unit1("Grp", "grp"),
       Unit1("Leaf", "leaf"), Unit1("Other", "other") >>

TestAggField == << Unit1("Datetime", "datetime"), Unit1("Grp", "grp") >>

\* The subcommands of DumpCommand.
DumpDomains ==
    {"system", "disk", "btrfs", "process", "cgroup", "iface", "network",
     "transport"}

Domains == DumpDomains \cup {"test"}

\* The type parameter F of a domain's DumpOptionField<F, A>.
FieldIdOf(d) ==
    CASE d = "system" -> SystemModelFieldId
      [] d = "disk" -> SingleDiskModelFieldId
      [] d = "btrfs" -> BtrfsModelFieldId
      [] d = "process" -> SingleProcessModelFieldId
      [] d = "cgroup" -> SingleCgroupModelFieldId
      [] d = "iface" -> SingleNetModelFieldId
      [] d = "network" -> NetworkModelFieldId
      [] d = "transport" -> NetworkModelFieldId
      [] d = "test" -> TestFieldId

\* The type parameter A of a domain's DumpOptionField<F, A>.
AggFieldOf(d) ==
    CASE d = "system" -> SystemAggField
      [] d = "disk" -> DiskAggField
      [] d = "btrfs" -> BtrfsAggField
      [] d = "process" -> ProcessAggField
      [] d = "cgroup" -> CgroupAggField
      [] d = "iface" -> IfaceAggField
      [] d = "network" -> NetworkAggField
      [] d = "transport" -> TransportAggField
      [] d = "test" -> TestAggField

(***************************************************************************)
(* Values.                                                                 *)
(***************************************************************************)
\* Result::Ok and Result::Err
Ok(x) == [tag |-> "Ok", v |-> x]

Err(e) == [tag |-> "Err", v |-> e]

\* DumpField::Common and DumpField::FieldId
Common(c) == [kind |-> "Common", v |-> c]

FieldId(f) == [kind |-> "FieldId", v |-> f]

\* DumpOptionField::Unit and DumpOptionField::Agg
Unit(f) == [tag |-> "Unit", f |-> f]

Agg(a) == [tag |-> "Agg", f |-> [kind |-> "Agg", v |-> a]]

Min(S) == CHOOSE x \in S : \A y \in S : x <= y

(***************************************************************************)
(* The derived FromStr and ToString of an enumeration.                     *)
(***************************************************************************)
\* A parser that compares the token as typed, without lowering it.
EnumFromStrCaseSensitive(E, s) ==
    LET hit == {i \in 1..Len(E) : Lit(E[i][2]) = s}
    IN  IF hit = {} THEN Err("no such field") ELSE Ok(E[Min(hit)][1])

\* FromStr of CommonField, of a domain's FieldId and of its AggField: the
\* variant whose canonical name is the token, compared without regard to case.
EnumFromStr(E, s) ==
    LET hit == {i \in 1..Len(E) : Lit(E[i][2]) = ToLowercase(s)}
    IN  IF hit = {} THEN Err("no such field") ELSE Ok(E[Min(hit)][1])

\* ToString: the canonical lower-case name of the variant.
EnumToString(E, v) ==
    Lit(E[CHOOSE i \in 1..Len(E) : E[i][1] = v][2])

\* format!/bail! with one "{}" argument: the literal text, then the argument.
Format(text, arg) == [text |-> text, arg |-> arg]

(***************************************************************************)
(* DumpOptionField::from_str and DumpOptionField::to_string.               *)
(***************************************************************************)
\* A resolver that tries the group names before the common field names.
from_str_agg_first(d, s) ==
    IF EnumFromStr(AggFieldOf(d), s).tag = "Ok"
    THEN Ok(Agg(EnumFromStr(AggFieldOf(d), s).v))
    ELSE IF EnumFromStr(CommonField, s).tag = "Ok"
    THEN Ok(Unit(Common(EnumFromStr(CommonField, s).v)))
    ELSE IF EnumFromStr(FieldIdOf(d), s).tag = "Ok"
    THEN Ok(Unit(FieldId(EnumFromStr(FieldIdOf(d), s).v)))
    ELSE Err(Format("Variant not found: ", s))

\* A resolver that reports the token lowered instead of as typed.
from_str_lowered_error(d, s) ==
    IF EnumFromStr(CommonField, s).tag = "Ok"
    THEN Ok(Unit(Common(EnumFromStr(CommonField, s).v)))
    ELSE IF EnumFromStr(AggFieldOf(d), s).tag = "Ok"
    THEN Ok(Agg(EnumFromStr(AggFieldOf(d), s).v))
    ELSE IF EnumFromStr(FieldIdOf(d), s).tag = "Ok"
    THEN Ok(Unit(FieldId(EnumFromStr(FieldIdOf(d), s).v)))
    ELSE Err(Format("Variant not found: ", ToLowercase(s)))

\* A resolver without the last attempt, the leaf field names.
from_str_no_field_id(d, s) ==
    IF EnumFromStr(CommonField, s).tag = "Ok"
    THEN Ok(Unit(Common(EnumFromStr(CommonField, s).v)))
    ELSE IF EnumFromStr(AggFieldOf(d), s).tag = "Ok"
    THEN Ok(Agg(EnumFromStr(AggFieldOf(d), s).v))
    ELSE Err(Format("Variant not found: ", s))

\* DumpOptionField::<F, A>::from_str(s), F and A those of domain d.
from_str(d, s) ==
    IF EnumFromStr(CommonField, s).tag = "Ok"
    THEN Ok(Unit(Common(EnumFromStr(CommonField, s).v)))
    ELSE IF EnumFromStr(AggFieldOf(d), s).tag = "Ok"
    THEN Ok(Agg(EnumFromStr(AggFieldOf(d), s).v))
    ELSE IF EnumFromStr(FieldIdOf(d), s).tag = "Ok"
    THEN Ok(Unit(FieldId(EnumFromStr(FieldIdOf(d), s).v)))
    ELSE Err(Format("Variant not found: ", s))

(***************************************************************************)
(* AggField::expand of each domain.                                        *)
(***************************************************************************)
\* .map(FieldId::Outer) over a list of inner variants
Wrap(outer, s) == [i \in 1..Len(s) |-> <<outer>> \o s[i]]

V(id) == <<id>>

\* An expansion that returns nothing for the vm group.
SystemAggExpandEmptyVm(agg, det) ==
    IF det
    THEN CASE agg = V("Cpu") ->
                Wrap("Cpu", SelectSeq(EnumAll(SingleCpuModelFieldId),
                                      LAMBDA v : v # V("Idx")))
           [] agg = V("Mem") -> Wrap("Mem", EnumAll(MemoryModelFieldId))
           [] agg = V("Vm") -> << >>
           [] agg = V("Stat") -> Wrap("Stat", EnumAll(ProcStatModelFieldId))
    ELSE CASE agg = V("Cpu") ->
                Wrap("Cpu", <<V("UsagePct"), V("UserPct"), V("SystemPct")>>)
           [] agg = V("Mem") -> Wrap("Mem", <<V("Total"), V("Free")>>)
           [] agg = V("Vm") -> << >>
           [] agg = V("Stat") -> Wrap("Stat", EnumAll(ProcStatModelFieldId))

\* An expansion whose full cpu list keeps the per-core index field.
SystemAggExpandWithIdx(agg, det) ==
    IF det
    THEN CASE agg = V("Cpu") -> Wrap("Cpu", EnumAll(SingleCpuModelFieldId))
           [] agg = V("Mem") -> Wrap("Mem", EnumAll(MemoryModelFieldId))
           [] agg = V("Vm") -> Wrap("Vm", EnumAll(VmModelFieldId))
           [] agg = V("Stat") -> Wrap("Stat", EnumAll(ProcStatModelFieldId))
    ELSE CASE agg = V("Cpu") ->
                Wrap("Cpu", <<V("UsagePct"), V("UserPct"), V("SystemPct")>>)
           [] agg = V("Mem") -> Wrap("Mem", <<V("Total"), V("Free")>>)
           [] agg = V("Vm") -> Wrap("Vm", EnumAll(VmModelFieldId))
           [] agg = V("Stat") -> Wrap("Stat", EnumAll(ProcStatModelFieldId))

\* An expansion whose full cpu list filters out the usage field instead of
\* the per-core index field.
SystemAggExpandFilterUsage(agg, det) ==
    IF det
    THEN CASE agg = V("Cpu") ->
                Wrap("Cpu", SelectSeq(EnumAll(SingleCpuModelFieldId),
                                      LAMBDA v : v # V("UsagePct")))
           [] agg = V("Mem") -> Wrap("Mem", EnumAll(MemoryModelFieldId))
           [] agg = V("Vm") -> Wrap("Vm", EnumAll(VmModelFieldId))
           [] agg = V("Stat") -> Wrap("Stat", EnumAll(ProcStatModelFieldId))
    ELSE CASE agg = V("Cpu") ->
                Wrap("Cpu", <<V("UsagePct"), V("UserPct"), V("SystemPct")>>)
           [] agg = V("Mem") -> Wrap("Mem", <<V("Total"), V("Free")>>)
           [] agg = V("Vm") -> Wrap("Vm", EnumAll(VmModelFieldId))
           [] agg = V("Stat") -> Wrap("Stat", EnumAll(ProcStatModelFieldId))

\* SystemAggField::expand
SystemAggExpand(agg, det) ==
    IF det
    THEN CASE agg = V("Cpu") ->
                Wrap("Cpu", SelectSeq(EnumAll(SingleCpuModelFieldId),
                                      LAMBDA v : v # V("Idx")))
           [] agg = V("Mem") -> Wrap("Mem", EnumAll(MemoryModelFieldId))
           [] agg = V("Vm") -> Wrap("Vm", EnumAll(VmModelFieldId))
           [] agg = V("Stat") -> Wrap("Stat", EnumAll(ProcStatModelFieldId))
    ELSE CASE agg = V("Cpu") ->
                Wrap("Cpu", <<V("UsagePct"), V("UserPct"), V("SystemPct")>>)
           [] agg = V("Mem") -> Wrap("Mem", <<V("Total"), V("Free")>>)
           [] agg = V("Vm") -> Wrap("Vm", EnumAll(VmModelFieldId))
           [] agg = V("Stat") -> Wrap("Stat", EnumAll(ProcStatModelFieldId))

\* An expansion of the disk groups that heeds detail: the full read list
\* also holds the total.
DiskAggExpandDetailed(agg, det) ==
    CASE agg = V("Read") ->
            <<V("ReadBytesPerSec"), V("ReadCompleted"), V("ReadMerged"),
              V("ReadSectors"), V("TimeSpendReadMs")>>
                \o (IF det THEN <<V("DiskTotalBytesPerSec")>> ELSE << >>)
      [] agg = V("Write") ->
            <<V("WriteBytesPerSec"), V("WriteCompleted"), V("WriteMerged"),
              V("WriteSectors"), V("TimeSpendWriteMs")>>
      [] agg = V("Discard") ->
            <<V("DiscardBytesPerSec"), V("DiscardCompleted"),
              V("DiscardMerged"), V("DiscardSectors"),
              V("TimeSpendDiscardMs")>>
      [] agg = V("FsInfo") ->
            <<V("DiskUsage"), V("PartitionSize"), V("FilesystemType")>>

\* DiskAggField::expand
DiskAggExpand(agg, det) ==
    CASE agg = V("Read") ->
            <<V("ReadBytesPerSec"), V("ReadCompleted"), V("ReadMerged"),
              V("ReadSectors"), V("TimeSpendReadMs")>>
      [] agg = V("Write") ->
            <<V("WriteBytesPerSec"), V("WriteCompleted"), V("WriteMerged"),
              V("WriteSectors"), V("TimeSpendWriteMs")>>
      [] agg = V("Discard") ->
            <<V("DiscardBytesPerSec"), V("DiscardCompleted"),
              V("DiscardMerged"), V("DiscardSectors"),
              V("TimeSpendDiscardMs")>>
      [] agg = V("FsInfo") ->
            <<V("DiskUsage"), V("PartitionSize"), V("FilesystemType")>>

\* BtrfsAggField::expand
BtrfsAggExpand(agg, det) ==
    CASE agg = V("DiskUsage") -> <<V("DiskFraction"), V("DiskBytes")>>

\* ProcessAggField::expand
ProcessAggExpand(agg, det) ==
    IF det
    THEN CASE agg = V("Cpu") -> Wrap("Cpu", EnumAll(ProcessCpuModelFieldId))
           [] agg = V("Mem") -> Wrap("Mem", EnumAll(ProcessMemoryModelFieldId))
           [] agg = V("Io") -> Wrap("Io", EnumAll(ProcessIoModelFieldId))
    ELSE CASE agg = V("Cpu") -> <<<<"Cpu", "UsagePct">>>>
           [] agg = V("Mem") -> <<<<"Mem", "RssBytes">>>>
           [] agg = V("Io") ->
                <<<<"Io", "RbytesPerSec">>, <<"Io", "WbytesPerSec">>>>

\* CgroupAggField::expand
CgroupAggExpand(agg, det) ==
    IF det
    THEN CASE agg = V("Cpu") -> Wrap("Cpu", EnumAll(CgroupCpuModelFieldId))
           [] agg = V("Mem") -> Wrap("Mem", EnumAll(CgroupMemoryModelFieldId))
           [] agg = V("Io") -> Wrap("Io", EnumAll(CgroupIoModelFieldId))
           [] agg = V("Pressure") ->
                Wrap("Pressure", EnumAll(CgroupPressureModelFieldId))
    ELSE CASE agg = V("Cpu") -> <<<<"Cpu", "UsagePct">>>>
           [] agg = V("Mem") -> <<<<"Mem", "Total">>>>
           [] agg = V("Io") ->
                <<<<"Io", "RbytesPerSec">>, <<"Io", "WbytesPerSec">>>>
           [] agg = V("Pressure") ->
                <<<<"Pressure", "CpuSomePct">>, <<"Pressure", "MemoryFullPct">>,
                  <<"Pressure", "IoFullPct">>>>

\* IfaceAggField::expand
IfaceAggExpand(agg, det) ==
    CASE agg = V("Rate") ->
            <<V("RxBytesPerSec"), V("TxBytesPerSec"), V("ThroughputPerSec"),
              V("RxPacketsPerSec"), V("TxPacketsPerSec")>>
      [] agg = V("Rx") ->
            <<V("RxBytes"), V("RxCompressed"), V("RxCrcErrors"),
              V("RxDropped"), V("RxErrors"), V("RxFifoErrors"),
              V("RxFrameErrors"), V("RxLengthErrors"), V("RxMissedErrors"),
              V("RxNohandler"), V("RxOverErrors"), V("RxPackets")>>
      [] agg = V("Tx") ->
            <<V("TxAbortedErrors"), V("TxBytes"), V("TxCarrierErrors"),
              V("TxCompressed"), V("TxDropped"), V("TxErrors"),
              V("TxFifoErrors"), V("TxHeartbeatErrors"), V("TxPackets"),
              V("TxWindowErrors")>>

\* NetworkAggField::expand
NetworkAggExpand(agg, det) ==
    CASE agg = V("Ip") -> Wrap("Ip", EnumAll(IpModelFieldId))
      [] agg = V("Ip6") -> Wrap("Ip6", EnumAll(Ip6ModelFieldId))
      [] agg = V("Icmp") -> Wrap("Icmp", EnumAll(IcmpModelFieldId))
      [] agg = V("Icmp6") -> Wrap("Icmp6", EnumAll(Icmp6ModelFieldId))

\* TransportAggField::expand
TransportAggExpand(agg, det) ==
    CASE agg = V("Tcp") -> Wrap("Tcp", EnumAll(TcpModelFieldId))
      [] agg = V("Udp") -> Wrap("Udp", EnumAll(UdpModelFieldId))
      [] agg = V("Udp6") -> Wrap("Udp6", EnumAll(Udp6ModelFieldId))

\* expand of the test instantiation's groups
TestAggExpand(agg, det) ==
    CASE agg = V("Datetime") ->
            IF det THEN <<V("Leaf"), V("Other")>> ELSE <<V("Leaf")>>
      [] agg = V("Grp") -> <<V("Other"), V("Leaf")>>

\* agg.expand(detail), dispatched on the domain's group type A
Expand(d, agg, det) ==
    CASE d = "system" -> SystemAggExpand(agg, det)
      [] d = "disk" -> DiskAggExpand(agg, det)
      [] d = "btrfs" -> BtrfsAggExpand(agg, det)
      [] d = "process" -> ProcessAggExpand(agg, det)
      [] d = "cgroup" -> CgroupAggExpand(agg, det)
      [] d = "iface" -> IfaceAggExpand(agg, det)
      [] d = "network" -> NetworkAggExpand(agg, det)
      [] d = "transport" -> TransportAggExpand(agg, det)
      [] d = "test" -> TestAggExpand(agg, det)

\* A rendering that shows a group as the first field it expands to.
to_string_agg_expanded(d, o) ==
    IF o.tag = "Unit" /\ o.f.kind = "Common"
    THEN EnumToString(CommonField, o.f.v)
    ELSE IF o.tag = "Unit" /\ o.f.kind = "FieldId"
    THEN EnumToString(FieldIdOf(d), o.f.v)
    ELSE EnumToString(FieldIdOf(d), Expand(d, o.f.v, FALSE)[1])

\* DumpOptionField::<F, A>::to_string(&self)
to_string(d, o) ==
    IF o.tag = "Unit" /\ o.f.kind = "Common"
    THEN EnumToString(CommonField, o.f.v)
    ELSE IF o.tag = "Unit" /\ o.f.kind = "FieldId"
    THEN EnumToString(FieldIdOf(d), o.f.v)
    ELSE EnumToString(AggFieldOf(d), o.f.v)

\* join(iter): each item's to_string, in order (the ", " between them is
\* kept implicit in the list).  `str` is the items' to_string, as a function.
join(str, items) == [i \in 1..Len(items) |-> str[items[i]]]

(***************************************************************************)
(* expand_fields.                                                          *)
(***************************************************************************)
\* A loop turn that puts a group's members in front of what was collected.
ExpandStepFront(d, res, field, det) ==
    IF field.tag = "Unit"
    THEN Append(res, field.f)
    ELSE [j \in 1..Len(Expand(d, field.f.v, det)) |->
             FieldId(Expand(d, field.f.v, det)[j])] \o res

\* A loop turn that leaves out the fields already collected.
ExpandStepDedup(d, res, field, det) ==
    IF field.tag = "Unit"
    THEN IF field.f \in Range(res) THEN res ELSE Append(res, field.f)
    ELSE res \o SelectSeq([j \in 1..Len(Expand(d, field.f.v, det)) |->
                              FieldId(Expand(d, field.f.v, det)[j])],
                          LAMBDA x : x \notin Range(res))

\* One turn of the loop of expand_fields: res after `field`.
ExpandStep(d, res, field, det) ==
    IF field.tag = "Unit"
    THEN Append(res, field.f)
    ELSE res \o [j \in 1..Len(Expand(d, field.f.v, det)) |->
                    FieldId(Expand(d, field.f.v, det)[j])]

RECURSIVE ExpandLoop(_, _, _, _, _)
\* for field in fields { ... }, from the i-th field on
ExpandLoop(d, fs, det, i, res) ==
    IF i > Len(fs)
    THEN res
    ELSE ExpandLoop(d, fs, det, i + 1, ExpandStep(d, res, fs[i], det))

\* expand_fields(fields, detail)
expand_fields(d, fs, det) == ExpandLoop(d, fs, det, 1, << >>)

(***************************************************************************)
(* The default lists and the generated long help strings.                  *)
(***************************************************************************)
UF(id) == Unit(FieldId(<<id>>))

UC(id) == Unit(Common(<<id>>))

AG(id) == Agg(<<id>>)

\* A default list of system that lacks the stat group.
DEFAULT_SYSTEM_FIELDS_WithoutStat ==
    << UF("Hostname"), UC("Datetime"), AG("Cpu"), AG("Mem"), AG("Vm"),
       UF("KernelVersion"), UF("OsRelease"), UC("Timestamp") >>

DEFAULT_SYSTEM_FIELDS ==
    << UF("Hostname"), UC("Datetime"), AG("Cpu"), AG("Mem"), AG("Vm"),
       UF("KernelVersion"), UF("OsRelease"), AG("Stat"), UC("Timestamp") >>

DEFAULT_DISK_FIELDS ==
    << UC("Datetime"), UF("Name"), UF("DiskTotalBytesPerSec"), UF("Major"),
       UF("Minor"), AG("Read"), AG("Write"), AG("Discard"), AG("FsInfo"),
       UC("Timestamp") >>

DEFAULT_BTRFS_FIELDS ==
    << UC("Datetime"), UF("Name"), AG("DiskUsage"), UC("Timestamp") >>

DEFAULT_PROCESS_FIELDS ==
    << UC("Datetime"), UF("Pid"), UF("Ppid"), UF("Comm"), UF("State"),
       AG("Cpu"), AG("Mem"), AG("Io"), UF("UptimeSecs"), UF("Cgroup"),
       UC("Timestamp"), UF("Cmdline"), UF("ExePath") >>

DEFAULT_CGROUP_FIELDS ==
    << UF("Name"), UF("InodeNumber"), UC("Datetime"), AG("Cpu"), AG("Mem"),
       AG("Io"), AG("Pressure"), UC("Timestamp") >>

DEFAULT_IFACE_FIELDS ==
    << UC("Datetime"), UF("Collisions"), UF("Multicast"), UF("Interface"),
       AG("Rate"), AG("Rx"), AG("Tx"), UC("Timestamp") >>

DEFAULT_NETWORK_FIELDS ==
    << UC("Datetime"), AG("Ip"), AG("Ip6"), AG("Icmp"), AG("Icmp6"),
       UC("Timestamp") >>

DEFAULT_TRANSPORT_FIELDS ==
    << UC("Datetime"), AG("Tcp"), AG("Udp"), AG("Udp6"), UC("Timestamp") >>

DefaultFields(d) ==
    CASE d = "system" -> DEFAULT_SYSTEM_FIELDS
      [] d = "disk" -> DEFAULT_DISK_FIELDS
      [] d = "btrfs" -> DEFAULT_BTRFS_FIELDS
      [] d = "process" -> DEFAULT_PROCESS_FIELDS
      [] d = "cgroup" -> DEFAULT_CGROUP_FIELDS
      [] d = "iface" -> DEFAULT_IFACE_FIELDS
      [] d = "network" -> DEFAULT_NETWORK_FIELDS
      [] d = "transport" -> DEFAULT_TRANSPORT_FIELDS

\* A help text whose list of available fields is written from what the
\* default list expands to instead of the live enumeration.
LongAboutFromDefaults(d, about, labels, detailNote, examples) ==
    [ about |-> about,
      common_fields |->
          join([v \in Range(EnumAll(CommonField)) |-> EnumToString(CommonField, v)],
               EnumAll(CommonField)),
      domain_fields |->
          join([v \in Range(EnumAll(FieldIdOf(d))) |-> EnumToString(FieldIdOf(d), v)],
               [i \in 1..Len(SelectSeq(expand_fields(d, DefaultFields(d), TRUE),
                                       LAMBDA f : f.kind = "FieldId")) |->
                   SelectSeq(expand_fields(d, DefaultFields(d), TRUE),
                             LAMBDA f : f.kind = "FieldId")[i].v]),
      aggregated |->
          [i \in 1..Len(labels) |->
              [ label |-> labels[i][1],
                includes |->
                    join([v \in Range(EnumAll(FieldIdOf(d))) |->
                              EnumToString(FieldIdOf(d), v)],
                         Expand(d, <<labels[i][2]>>, FALSE)) ]],
      detail |-> detailNote,
      default_fields |-> join([o \in Range(DefaultFields(d)) |-> to_string(d, o)],
               DefaultFields(d)),
      examples |-> examples ]

\* The format! of a *_LONG_ABOUT static of domain d: its interpolated parts.
\* `labels` are the group labels written in the text, each with the group
\* whose expand(false) is printed next to it; `examples` are the token lists
\* after -f in the example commands.
LongAbout(d, about, labels, detailNote, examples) ==
    [ about |-> about,
      common_fields |->
          join([v \in Range(EnumAll(CommonField)) |-> EnumToString(CommonField, v)],
               EnumAll(CommonField)),
      domain_fields |->
          join([v \in Range(EnumAll(FieldIdOf(d))) |-> EnumToString(FieldIdOf(d), v)],
               EnumAll(FieldIdOf(d))),
      aggregated |->
          [i \in 1..Len(labels) |->
              [ label |-> labels[i][1],
                includes |->
                    join([v \in Range(EnumAll(FieldIdOf(d))) |->
                              EnumToString(FieldIdOf(d), v)],
                         Expand(d, <<labels[i][2]>>, FALSE)) ]],
      detail |-> detailNote,
      default_fields |-> join([o \in Range(DefaultFields(d)) |-> to_string(d, o)],
               DefaultFields(d)),
      examples |-> examples ]

DetailIncludes == "includes [<agg_field>.*] for each given aggregated field"

DetailNoEffect == "no effect"

SYSTEM_LONG_ABOUT ==
    LongAbout("system", "Dump system stats",
              << <<"cpu", "Cpu">>, <<"mem", "Mem">>, <<"vm", "Vm">>,
                 <<"stat", "Stat">> >>,
              DetailIncludes, << <<"datetime", "vm", "hostname">> >>)

DISK_LONG_ABOUT ==
    LongAbout("disk", "Dump disk stats",
              << <<"read", "Read">>, <<"write", "Write">>,
                 <<"discard", "Discard">>, <<"fs_info", "FsInfo">> >>,
              DetailNoEffect, << <<"read", "write", "discard">> >>)

BTRFS_LONG_ABOUT ==
    LongAbout("btrfs", "Dump btrfs Stats", << <<"usage", "DiskUsage">> >>,
              DetailNoEffect, << <<"usage">> >>)

PROCESS_LONG_ABOUT ==
    LongAbout("process", "Dump process stats",
              << <<"cpu", "Cpu">>, <<"mem", "Mem">>, <<"io", "Io">> >>,
              DetailIncludes, << <<"comm", "cpu", "io.rwbytes_per_sec">> >>)

CGROUP_LONG_ABOUT ==
    LongAbout("cgroup", "Dump cgroup stats",
              << <<"cpu", "Cpu">>, <<"mem", "Mem">>, <<"io", "Io">>,
                 <<"pressure", "Pressure">> >>,
              DetailIncludes, << <<"name", "cpu">> >>)

IFACE_LONG_ABOUT ==
    LongAbout("iface", "Dump the link layer iface stats",
              << <<"rate", "Rate">>, <<"rx", "Rx">>, <<"tx", "Tx">> >>,
              DetailNoEffect, << <<"interface", "rate">> >>)

NETWORK_LONG_ABOUT ==
    LongAbout("network", "Dump the network layer stats including ip and icmp",
              << <<"ip", "Ip">>, <<"ip6", "Ip6">>, <<"icmp", "Icmp">>,
                 <<"icmp6", "Icmp6">> >>,
              DetailNoEffect, << <<"ip", "ip6">> >>)

TRANSPORT_LONG_ABOUT ==
    LongAbout("transport",
              "Dump the transport layer stats including tcp and udp",
              << <<"tcp", "Tcp">>, <<"udp", "Udp">>, <<"udp6", "Udp6">> >>,
              DetailNoEffect, << <<"tcp", "udp">> >>)

\* The closure given to Lazy::new for domain d's long help string.
BuildLongAbout(d) ==
    CASE d = "system" -> SYSTEM_LONG_ABOUT
      [] d = "disk" -> DISK_LONG_ABOUT
      [] d = "btrfs" -> BTRFS_LONG_ABOUT
      [] d = "process" -> PROCESS_LONG_ABOUT
      [] d = "cgroup" -> CGROUP_LONG_ABOUT
      [] d = "iface" -> IFACE_LONG_ABOUT
      [] d = "network" -> NETWORK_LONG_ABOUT
      [] d = "transport" -> TRANSPORT_LONG_ABOUT

(***************************************************************************)
(* Inputs.                                                                 *)
(***************************************************************************)
SeqUpTo(S, n) == UNION {[1..k -> S] : k \in 0..n}

Last(s) == s[Len(s)]

\* Every name of domain d's three namespaces.
Names(d) ==
    Range(EnumNames(CommonField)) \cup Range(EnumNames(AggFieldOf(d)))
        \cup Range(EnumNames(FieldIdOf(d)))

\* Names of no namespace of any domain.
BogusNames == {"bogus_field", "usage"}

\* The tokens a user may type for domain d, in every casing.
TypedTokens(d) ==
    {Token(n, up) : n \in Names(d) \cup BogusNames, up \in Casings}

\* Every value of DumpOptionField<F, A> of domain d.
OptionFields(d) ==
    {Unit(Common(c)) : c \in Range(EnumAll(CommonField))}
        \cup {Agg(a) : a \in Range(EnumAll(AggFieldOf(d)))}
        \cup {Unit(FieldId(f)) : f \in Range(EnumAll(FieldIdOf(d)))}

\* The option fields the lists handed to expand_fields are drawn from: a
\* common field, every group, a leaf field outside the groups and a leaf
\* field that the first group also expands to.
FieldPool(d) ==
    {Unit(Common(<<"Datetime">>))}
        \cup {Agg(a) : a \in Range(EnumAll(AggFieldOf(d)))}
        \cup {Unit(FieldId(EnumAll(FieldIdOf(d))[1]))}
        \cup {Unit(FieldId(Expand(d, EnumAll(AggFieldOf(d))[1], FALSE)[1]))}

\* The tokens the --fields lists of a request are drawn from.
ArgPool(d) ==
    {Lit("datetime"), Lit(EnumNames(AggFieldOf(d))[1]),
     Token(EnumNames(AggFieldOf(d))[1], {1}),
     Lit(EnumNames(FieldIdOf(d))[1]), Lit("bogus_field"),
     Token("bogus_field", {1})}

Some(x) == [tag |-> "Some", v |-> x]

(***************************************************************************)
(* Resolver: a token or an option field, then from_str and to_string       *)
(* applied in turn.                                                        *)
(***************************************************************************)
NoResolve == hist = << >>

NoExpand == fields = << >> /\ out = None

\* No option besides --fields and --detail was typed.
NoOpts == [pattern |-> None, default |-> FALSE, everything |-> FALSE]

NoRequest ==
    /\ argv = << >> /\ parsed = << >> /\ err = None /\ pc = "idle"
    /\ opts = NoOpts

NoLazy ==
    /\ cell = << >> /\ tpc = << >> /\ tdom = << >>
    /\ tbuf = << >> /\ tgot = << >> /\ builds = << >>

InitResolve ==
    /\ mode = "resolve"
    /\ domain \in Domains
    /\ detail = FALSE
    /\ hist \in {<<[k |-> "str", v |-> t]>> : t \in TypedTokens(domain)}
            \cup {<<[k |-> "opt", v |-> o]>> : o \in OptionFields(domain)}
    /\ NoExpand /\ NoRequest /\ NoLazy

\* DumpOptionField::from_str applied to the token last produced or typed.
ParseToken ==
    /\ mode = "resolve"
    /\ Len(hist) < MaxChain
    /\ Last(hist).k = "str"
    /\ LET r == from_str(domain, Last(hist).v)
       IN  hist' = Append(hist, IF r.tag = "Ok"
                                THEN [k |-> "opt", v |-> r.v]
                                ELSE [k |-> "err", v |-> r.v])
    /\ UNCHANGED <<mode, domain, detail, opts, fields, out, argv, parsed, err, pc,
                   cell, tpc, tdom, tbuf, tgot, builds>>

\* DumpOptionField::to_string applied to the option field last produced.
RenderField ==
    /\ mode = "resolve"
    /\ Len(hist) < MaxChain
    /\ Last(hist).k = "opt"
    /\ hist' = Append(hist, [k |-> "str", v |-> to_string(domain, Last(hist).v)])
    /\ UNCHANGED <<mode, domain, detail, opts, fields, out, argv, parsed, err, pc,
                   cell, tpc, tdom, tbuf, tgot, builds>>

NextResolve == ParseToken \/ RenderField

SpecResolve == InitResolve /\ [][NextResolve]_vars

(***************************************************************************)
(* Expansion: expand_fields applied to a list of option fields.            *)
(***************************************************************************)
InitExpand ==
    /\ mode = "expand"
    /\ domain \in Domains
    /\ detail \in BOOLEAN
    /\ fields \in SeqUpTo(FieldPool(domain), MaxFields)
    /\ out = None
    /\ NoResolve /\ NoRequest /\ NoLazy

\* A call of expand_fields(&fields, detail).
ExpandFields ==
    /\ mode = "expand"
    /\ out = None
    /\ out' = Some(expand_fields(domain, fields, detail))
    /\ UNCHANGED <<mode, domain, detail, opts, hist, fields, argv, parsed, err, pc,
                   cell, tpc, tdom, tbuf, tgot, builds>>

NextExpand == ExpandFields

SpecExpand == InitExpand /\ [][NextExpand]_vars

(***************************************************************************)
(* Groups: expand called on the groups of a subcommand.                    *)
(***************************************************************************)
InitGroup ==
    /\ mode = "group"
    /\ domain \in DumpDomains
    /\ detail = FALSE
    /\ hist = << >>
    /\ NoExpand /\ NoRequest /\ NoLazy

\* A call of agg.expand(det) on a group of the domain.
ExpandGroup ==
    /\ mode = "group"
    /\ Len(hist) < MaxCalls
    /\ \E a \in Range(EnumAll(AggFieldOf(domain))), det \in BOOLEAN :
          hist' = Append(hist, [k |-> "expand", agg |-> a, det |-> det,
                                v |-> Expand(domain, a, det)])
    /\ UNCHANGED <<mode, domain, detail, opts, fields, out, argv, parsed, err, pc,
                   cell, tpc, tdom, tbuf, tgot, builds>>

NextGroup == ExpandGroup

SpecGroup == InitGroup /\ [][NextGroup]_vars

(***************************************************************************)
(* Request: one `below dump <subcommand>` command line.  The argument      *)
(* parser hands the tokens after --fields one by one to the value parser   *)
(* of the `fields` argument (from_str), then validates the arguments       *)
(* against each other; the subcommand is handled only if the whole command *)
(* line was accepted.                                                      *)
(***************************************************************************)
\* How many values one occurrence of a subcommand's --fields takes: "1.."
\* where the argument says num_args = 1.., and one value where it does not.
num_args(d) == IF d = "btrfs" THEN "1" ELSE "1.."

\* The argument parser's error for a word that no argument takes.
UnknownArgument(tok) == Format("unexpected argument: ", tok)

\* The argument parser's error for two arguments that conflict.
ArgumentConflict == Format("cannot be used with: ", "--fields")

\* The --fields lists of the example commands of a domain's long help, and
\* the list of the system scenario ["datetime", "cpu", "hostname"].
ExampleArgs(d) ==
    {[i \in 1..Len(e) |-> Lit(e[i])] : e \in Range(BuildLongAbout(d).examples)}
        \cup (IF d = "system"
              THEN {<<Lit("datetime"), Lit("cpu"), Lit("hostname")>>}
              ELSE {})

\* The option-field lists a saved pattern of the dumprc file may hold.
Presets(d) ==
    {<<Unit(Common(<<"Datetime">>)), Agg(EnumAll(AggFieldOf(d))[1])>>,
     <<Unit(FieldId(EnumAll(FieldIdOf(d))[1]))>>}

InitRequest ==
    /\ mode = "request"
    /\ domain \in DumpDomains
    /\ detail \in BOOLEAN
    /\ opts \in [pattern : {None, Some("mine")}, default : BOOLEAN,
                 everything : BOOLEAN]
    /\ argv \in SeqUpTo(ArgPool(domain), MaxArgs) \cup ExampleArgs(domain)
    /\ parsed = << >>
    /\ err = None
    /\ pc = "parse"
    /\ out = None
    /\ fields = << >>
    /\ NoResolve /\ NoLazy

\* A parser that, at a token it cannot resolve, stops reading and keeps the
\* fields resolved so far as the request's fields.
ParseArgKeepResolved ==
    /\ mode = "request"
    /\ pc = "parse"
    /\ Len(parsed) < Len(argv)
    /\ IF Len(parsed) >= 1 /\ num_args(domain) = "1"
       THEN /\ err' = UnknownArgument(argv[Len(parsed) + 1])
            /\ pc' = "rejected"
            /\ UNCHANGED <<parsed, fields, out>>
       ELSE LET r == from_str(domain, argv[Len(parsed) + 1])
            IN  IF r.tag = "Ok"
                THEN /\ parsed' = Append(parsed, r.v)
                     /\ UNCHANGED <<fields, out, pc, err>>
                ELSE /\ fields' = parsed
                     /\ out' = Some(expand_fields(domain, parsed, detail))
                     /\ pc' = "expanded"
                     /\ UNCHANGED <<parsed, err>>
    /\ UNCHANGED <<mode, domain, detail, opts, hist, argv,
                   cell, tpc, tdom, tbuf, tgot, builds>>

\* The next word after --fields: a word past the values the occurrence takes
\* is an argument of its own, which no subcommand has; otherwise the value
\* parser resolves it, and an error ends the parsing of the command line.
ParseArg ==
    /\ mode = "request"
    /\ pc = "parse"
    /\ Len(parsed) < Len(argv)
    /\ IF Len(parsed) >= 1 /\ num_args(domain) = "1"
       THEN /\ err' = UnknownArgument(argv[Len(parsed) + 1])
            /\ pc' = "rejected"
            /\ UNCHANGED parsed
       ELSE LET r == from_str(domain, argv[Len(parsed) + 1])
            IN  IF r.tag = "Ok"
                THEN /\ parsed' = Append(parsed, r.v)
                     /\ UNCHANGED <<err, pc>>
                ELSE /\ err' = r.v
                     /\ pc' = "rejected"
                     /\ UNCHANGED parsed
    /\ UNCHANGED <<mode, domain, detail, opts, hist, fields, out, argv,
                   cell, tpc, tdom, tbuf, tgot, builds>>

\* A validation that lets --pattern stand beside --fields.
ValidateNoConflict ==
    /\ mode = "request"
    /\ pc = "parse"
    /\ Len(parsed) = Len(argv)
    /\ pc' = "matched"
    /\ UNCHANGED <<mode, domain, detail, opts, hist, fields, out, argv, parsed,
                   err, cell, tpc, tdom, tbuf, tgot, builds>>

\* After the last word the arguments are validated: `pattern` conflicts
\* with `fields`.
Validate ==
    /\ mode = "request"
    /\ pc = "parse"
    /\ Len(parsed) = Len(argv)
    /\ IF opts.pattern # None /\ argv # << >>
       THEN /\ err' = ArgumentConflict
            /\ pc' = "rejected"
       ELSE /\ pc' = "matched"
            /\ UNCHANGED err
    /\ UNCHANGED <<mode, domain, detail, opts, hist, fields, out, argv, parsed,
                   cell, tpc, tdom, tbuf, tgot, builds>>

\* The parsed subcommand is handled: --everything stands for --default
\* --detail, --default selects the default list over --fields, a pattern
\* stands for its saved list, and the selected list is expanded.
HandleFields ==
    /\ mode = "request"
    /\ pc = "matched"
    /\ \E preset \in Presets(domain) :
          LET default == opts.everything \/ opts.default
              det == opts.everything \/ detail
              selected ==
                  IF default THEN DefaultFields(domain)
                  ELSE IF argv # << >> THEN parsed
                  ELSE IF opts.pattern # None THEN preset
                  ELSE DefaultFields(domain)
          IN  /\ fields' = selected
              /\ out' = Some(expand_fields(domain, selected, det))
    /\ pc' = "expanded"
    /\ UNCHANGED <<mode, domain, detail, opts, hist, argv, parsed, err,
                   cell, tpc, tdom, tbuf, tgot, builds>>

\* The expanded fields are handed to data retrieval and rendering.
Dump ==
    /\ mode = "request"
    /\ pc = "expanded"
    /\ pc' = "dumped"
    /\ UNCHANGED <<mode, domain, detail, opts, hist, fields, out, argv, parsed,
                   err, cell, tpc, tdom, tbuf, tgot, builds>>

NextRequest == ParseArg \/ Validate \/ HandleFields \/ Dump

SpecRequest == InitRequest /\ [][NextRequest]_vars

(***************************************************************************)
(* Lazy: the *_LONG_ABOUT statics are once_cell::sync::Lazy<String>; every *)
(* `X_LONG_ABOUT.as_str()` of DumpCommand forces the cell.  A cell is      *)
(* incomplete, running (one thread is inside the closure) or complete.     *)
(***************************************************************************)
Threads == 1..NThreads

\* Lazy::new(|| format!(...)): nothing built, no value stored.
NewLazy == [state |-> "incomplete", value |-> None]

\* A cell that hands out its slot whatever its state.
IsInitializedUnchecked(c) == TRUE

\* OnceCell::get's test: the value may be read only once the cell is complete.
IsInitialized(c) == c.state = "complete"

\* A start that only checks that the cell is not complete yet.
MayStartUnguarded(c) == c.state # "complete"

\* The compare-exchange that lets one thread start the closure: it succeeds
\* only on an incomplete cell, which it makes running.
MayStart(c) == c.state = "incomplete"

InitLazy ==
    /\ mode = "lazy"
    /\ domain = "none"
    /\ detail = FALSE
    /\ cell = [d \in DumpDomains |-> NewLazy]
    /\ tpc = [t \in Threads |-> "idle"]
    /\ tdom = [t \in Threads |-> "none"]
    /\ tbuf = [t \in Threads |-> None]
    /\ tgot = [t \in Threads |-> << >>]
    /\ builds = [d \in DumpDomains |-> 0]
    /\ NoResolve /\ NoExpand /\ NoRequest

LazyIdle ==
    <<mode, domain, detail, opts, hist, fields, out, argv, parsed, err, pc>>

\* The subcommands in the order DumpCommand declares them, which is the
\* order in which building the command evaluates their long_about.
CommandOrder ==
    <<"system", "disk", "btrfs", "process", "cgroup", "iface", "network",
      "transport">>

\* X_LONG_ABOUT.as_str(): thread t, building the command, starts its next
\* access to a long help string; after the last subcommand's, a thread that
\* builds the command again starts over with the first.
Access(t) ==
    /\ mode = "lazy"
    /\ tpc[t] = "idle"
    /\ Len(tgot[t]) < MaxAccess
    /\ tdom' = [tdom EXCEPT ![t] =
                    CommandOrder[(Len(tgot[t]) % Len(CommandOrder)) + 1]]
    /\ tpc' = [tpc EXCEPT ![t] = "get"]
    /\ UNCHANGED <<cell, tbuf, tgot, builds>>
    /\ UNCHANGED LazyIdle

\* The fast path: a complete cell's value is returned at once.
FastPath(t) ==
    /\ mode = "lazy"
    /\ tpc[t] = "get"
    /\ IF IsInitialized(cell[tdom[t]])
       THEN /\ tgot' = [tgot EXCEPT ![t] =
                           Append(@, <<tdom[t], cell[tdom[t]].value>>)]
            /\ tpc' = [tpc EXCEPT ![t] = "idle"]
       ELSE /\ tpc' = [tpc EXCEPT ![t] = "init"]
            /\ UNCHANGED tgot
    /\ UNCHANGED <<cell, tdom, tbuf, builds>>
    /\ UNCHANGED LazyIdle

\* The slow path's loop: start the closure, wait for the running one, or
\* find the cell complete.
Initialize(t) ==
    /\ mode = "lazy"
    /\ tpc[t] = "init"
    /\ IF MayStart(cell[tdom[t]])
       THEN /\ cell' = [cell EXCEPT ![tdom[t]].state = "running"]
            /\ builds' = [builds EXCEPT ![tdom[t]] = @ + 1]
            /\ tpc' = [tpc EXCEPT ![t] = "build"]
       ELSE /\ tpc' = [tpc EXCEPT ![t] =
                          IF cell[tdom[t]].state = "complete"
                          THEN "read" ELSE "wait"]
            /\ UNCHANGED <<cell, builds>>
    /\ UNCHANGED <<tdom, tbuf, tgot>>
    /\ UNCHANGED LazyIdle

\* A waiting thread is woken when the running closure has finished.
Wake(t) ==
    /\ mode = "lazy"
    /\ tpc[t] = "wait"
    /\ cell[tdom[t]].state # "running"
    /\ tpc' = [tpc EXCEPT ![t] = "init"]
    /\ UNCHANGED <<cell, tdom, tbuf, tgot, builds>>
    /\ UNCHANGED LazyIdle

\* A closure that asks for the long help string it is itself building.
BuildReentrant(t) ==
    /\ mode = "lazy"
    /\ tpc[t] = "build"
    /\ tpc' = [tpc EXCEPT ![t] = "init"]
    /\ UNCHANGED <<cell, tdom, tbuf, tgot, builds>>
    /\ UNCHANGED LazyIdle

\* The closure runs: format! makes the string in the thread's own buffer.
Build(t) ==
    /\ mode = "lazy"
    /\ tpc[t] = "build"
    /\ tbuf' = [tbuf EXCEPT ![t] = BuildLongAbout(tdom[t])]
    /\ tpc' = [tpc EXCEPT ![t] = "store"]
    /\ UNCHANGED <<cell, tdom, tgot, builds>>
    /\ UNCHANGED LazyIdle

\* The closure's result is moved into the cell's slot.
Store(t) ==
    /\ mode = "lazy"
    /\ tpc[t] = "store"
    /\ cell' = [cell EXCEPT ![tdom[t]].value = tbuf[t]]
    /\ tbuf' = [tbuf EXCEPT ![t] = None]
    /\ tpc' = [tpc EXCEPT ![t] = "publish"]
    /\ UNCHANGED <<tdom, tgot, builds>>
    /\ UNCHANGED LazyIdle

\* The cell is marked complete and the waiting threads are released.
Publish(t) ==
    /\ mode = "lazy"
    /\ tpc[t] = "publish"
    /\ cell' = [cell EXCEPT ![tdom[t]].state = "complete"]
    /\ tpc' = [tpc EXCEPT ![t] = "read"]
    /\ UNCHANGED <<tdom, tbuf, tgot, builds>>
    /\ UNCHANGED LazyIdle

\* A return that moves the string out of the cell, leaving it empty.
ReadValueTaking(t) ==
    /\ mode = "lazy"
    /\ tpc[t] = "read"
    /\ tgot' = [tgot EXCEPT ![t] = Append(@, <<tdom[t], cell[tdom[t]].value>>)]
    /\ cell' = [cell EXCEPT ![tdom[t]] = NewLazy]
    /\ tpc' = [tpc EXCEPT ![t] = "idle"]
    /\ UNCHANGED <<tdom, tbuf, builds>>
    /\ UNCHANGED LazyIdle

\* The slow path returns the value of the now complete cell.
ReadValue(t) ==
    /\ mode = "lazy"
    /\ tpc[t] = "read"
    /\ tgot' = [tgot EXCEPT ![t] = Append(@, <<tdom[t], cell[tdom[t]].value>>)]
    /\ tpc' = [tpc EXCEPT ![t] = "idle"]
    /\ UNCHANGED <<cell, tdom, tbuf, builds>>
    /\ UNCHANGED LazyIdle

NextLazy ==
    \E t \in Threads :
        \/ Access(t)
        \/ FastPath(t)
        \/ Initialize(t)
        \/ Wake(t)
        \/ Build(t)
        \/ Store(t)
        \/ Publish(t)
        \/ ReadValue(t)

SpecLazy == InitLazy /\ [][NextLazy]_vars

\* The steps of thread t inside Lazy::force.
Force(t) ==
    \/ FastPath(t)
    \/ Initialize(t)
    \/ Wake(t)
    \/ Build(t)
    \/ Store(t)
    \/ Publish(t)
    \/ ReadValue(t)

\* The accesses of a thread to the first MaxRace long help strings, the
\* ones the threads race for.
FirstAccess(t) ==
    /\ Len(tgot[t]) < MaxRace
    /\ Access(t)

NextRace == \E t \in Threads : FirstAccess(t) \/ Force(t)

\* A thread inside Lazy::force is scheduled again and again; whether it
\* starts another access is up to it.
SpecLazyFair ==
    /\ InitLazy
    /\ [][NextRace]_vars
    /\ \A t \in Threads : WF_vars(Force(t))

Init == InitResolve \/ InitExpand \/ InitGroup \/ InitRequest \/ InitLazy

Next == NextResolve \/ NextExpand \/ NextGroup \/ NextRequest \/ NextLazy

Spec == Init /\ [][Next]_vars
(***************************************************************************)
(* Properties.                                                             *)
(***************************************************************************)
\* The positions of hist at which from_str was applied (i: the token,
\* i + 1: its result) and at which to_string was applied.
ParseSteps == {i \in 1..(Len(hist) - 1) : hist[i].k = "str"}

RenderSteps == {i \in 1..(Len(hist) - 1) : hist[i].k = "opt"}

IsCommonName(s) == EnumFromStr(CommonField, s).tag = "Ok"

IsAggName(d, s) == EnumFromStr(AggFieldOf(d), s).tag = "Ok"

IsFieldName(d, s) == EnumFromStr(FieldIdOf(d), s).tag = "Ok"

OptEntry(o) == [k |-> "opt", v |-> o]

\* C1: from_str tries the common field names, then the group names, then the
\* leaf field names, and returns the first success: a common field name
\* resolves to Unit(Common) even if it also names a group or a leaf field, a
\* group name that is no common field name resolves to Agg even if it also
\* names a leaf field, and any other leaf field name resolves to Unit(FieldId);
\* a collision is never an error.
C1_NamespacePriority ==
    mode = "resolve" =>
        \A i \in ParseSteps :
            LET s == hist[i].v
            IN  /\ IsCommonName(s) =>
                      hist[i + 1] =
                          OptEntry(Unit(Common(EnumFromStr(CommonField, s).v)))
                /\ ~IsCommonName(s) /\ IsAggName(domain, s) =>
                      hist[i + 1] =
                          OptEntry(Agg(EnumFromStr(AggFieldOf(domain), s).v))
                /\ ~IsCommonName(s) /\ ~IsAggName(domain, s)
                      /\ IsFieldName(domain, s) =>
                      hist[i + 1] =
                          OptEntry(Unit(FieldId(
                              EnumFromStr(FieldIdOf(domain), s).v)))

\* A token that names a common field, a group and a leaf field at once was
\* resolved, to the common field.
C1_Witness ==
    /\ mode = "resolve"
    /\ Len(hist) >= 2
    /\ hist[1].k = "str"
    /\ IsCommonName(hist[1].v)
    /\ IsAggName(domain, hist[1].v)
    /\ IsFieldName(domain, hist[1].v)
    /\ hist[2] = OptEntry(Unit(Common(<<"Datetime">>)))

\* from_str fails exactly on the tokens of no namespace, and its error is
\* `text` followed by the token as typed.
FailsWith(text) ==
    mode = "resolve" =>
        \A i \in ParseSteps :
            LET s == hist[i].v
            IN  /\ hist[i + 1].k = "err" <=>
                      (~IsCommonName(s) /\ ~IsAggName(domain, s)
                          /\ ~IsFieldName(domain, s))
                /\ hist[i + 1].k = "err" => hist[i + 1].v = Format(text, s)

\* C2 (as amended): from_str fails if and only if the token matches no common
\* field name, no group name and no leaf field name of the domain, and the
\* failure is the error "Variant not found: " followed by the original token
\* text exactly as typed.
C2_FailsOnlyUnmatched == FailsWith("Variant not found: ")

\* C2 (as stated): the failure signals "unrecognized field" with the token.
C2_Original == FailsWith("unrecognized field: ")

\* A token of no namespace, typed with an upper-case letter, was rejected.
C2_Witness ==
    /\ mode = "resolve"
    /\ Len(hist) >= 2
    /\ hist[1].k = "str"
    /\ hist[1].v = Token("bogus_field", {1})
    /\ hist[2].k = "err"

\* The segment of the output that one option field contributes.
Segment(d, o, det) ==
    IF o.tag = "Unit"
    THEN <<o.f>>
    ELSE [j \in 1..Len(Expand(d, o.f.v, det)) |-> FieldId(Expand(d, o.f.v, det)[j])]

RECURSIVE SegmentsLen(_, _, _, _)
\* The summed length of the segments of the first n option fields.
SegmentsLen(d, fs, det, n) ==
    IF n = 0
    THEN 0
    ELSE SegmentsLen(d, fs, det, n - 1) + Len(Segment(d, fs[n], det))

\* C3: expand_fields preserves input order: its output is the concatenation,
\* in input order, of one segment per input element, a Unit's segment being
\* the unit itself and an Agg's segment the group's expand(detail) in the
\* group's own order, each member wrapped as a leaf field.
C3_OrderPreserved ==
    mode = "expand" /\ out.tag = "Some" =>
        /\ Len(out.v) = SegmentsLen(domain, fields, detail, Len(fields))
        /\ \A i \in 1..Len(fields) :
              \A j \in 1..Len(Segment(domain, fields[i], detail)) :
                  out.v[SegmentsLen(domain, fields, detail, i - 1) + j] =
                      Segment(domain, fields[i], detail)[j]

\* A list [A, B, C] with B a group of several members was expanded.
C3_Witness ==
    /\ mode = "expand"
    /\ out.tag = "Some"
    /\ Len(fields) = 3
    /\ fields[1].tag = "Unit" /\ fields[2].tag = "Agg" /\ fields[3].tag = "Unit"
    /\ Len(Expand(domain, fields[2].f.v, detail)) >= 2
    /\ Len(out.v) >= 4

Count(x, s) == Cardinality({i \in 1..Len(s) : s[i] = x})

RECURSIVE CountInSegments(_, _, _, _, _)
\* How often x occurs in the segments of the first n option fields.
CountInSegments(x, d, fs, det, n) ==
    IF n = 0
    THEN 0
    ELSE CountInSegments(x, d, fs, det, n - 1)
            + Count(x, Segment(d, fs[n], det))

\* C4: expand_fields removes no duplicate: the output holds every leaf field
\* as often as the input's units and group expansions hold it, its length is
\* the number of units plus the summed lengths of the groups' expansions, and
\* expand_fields([G, G], d) is expand(G, d) followed by expand(G, d).
C4_NoDeduplication ==
    mode = "expand" /\ out.tag = "Some" =>
        /\ \A i \in 1..Len(fields) :
              \A x \in Range(Segment(domain, fields[i], detail)) :
                  Count(x, out.v) =
                      CountInSegments(x, domain, fields, detail, Len(fields))
        /\ Len(out.v) =
              Cardinality({i \in 1..Len(fields) : fields[i].tag = "Unit"})
                  + SegmentsLen(domain,
                                SelectSeq(fields, LAMBDA o : o.tag = "Agg"),
                                detail,
                                Len(SelectSeq(fields, LAMBDA o : o.tag = "Agg")))
        /\ (Len(fields) = 2 /\ fields[1] = fields[2] /\ fields[1].tag = "Agg") =>
              out.v = Segment(domain, fields[1], detail)
                          \o Segment(domain, fields[1], detail)

\* A list repeating a leaf field that one of its groups also expands to was
\* expanded.
C4_Witness ==
    /\ mode = "expand"
    /\ out.tag = "Some"
    /\ Len(fields) = 3
    /\ fields[1].tag = "Agg"
    /\ fields[2].tag = "Unit"
    /\ fields[2].f \in Range(Segment(domain, fields[1], detail))
    /\ fields[3] = fields[1]
    /\ Count(fields[2].f, out.v) = 3

\* C5: the build step of a domain's long help string runs at most once,
\* however the threads that access it for the first time interleave.
C5_BuildAtMostOnce ==
    mode = "lazy" => \A d \in DumpDomains : builds[d] <= 1

\* Two threads are in their first access to the same string at once: one is
\* inside the build step while the other has found the cell running.
C5_Witness ==
    /\ mode = "lazy"
    /\ \E t1, t2 \in Threads :
          /\ t1 # t2
          /\ tdom[t1] = tdom[t2]
          /\ tpc[t1] = "build"
          /\ tpc[t2] = "wait"
          /\ tgot[t1] = << >> /\ tgot[t2] = << >>

\* C6: every access to a domain's long help string returns the complete
\* string of the one finished build: never an absent or partial value, and
\* the same value to any two callers of the same domain.
C6_CompleteValue ==
    mode = "lazy" =>
        /\ \A t \in Threads : \A i \in 1..Len(tgot[t]) :
              tgot[t][i][2] = BuildLongAbout(tgot[t][i][1])
        /\ \A t1, t2 \in Threads :
              \A i \in 1..Len(tgot[t1]), j \in 1..Len(tgot[t2]) :
                  tgot[t1][i][1] = tgot[t2][j][1] =>
                      tgot[t1][i][2] = tgot[t2][j][2]

\* Every thread has been returned the system help string, which was built
\* once.
C6_Witness ==
    /\ mode = "lazy"
    /\ builds["system"] = 1
    /\ \A t \in Threads : Len(tgot[t]) >= 1 /\ tgot[t][1][1] = "system"

\* C7: for every group of every subcommand and both detail values, expand
\* returns a non-empty sequence of leaf fields of the domain's enumeration,
\* and the same sequence on every call.
C7_ExpandNonEmptySubset ==
    mode = "group" =>
        /\ \A i \in 1..Len(hist) :
              /\ hist[i].v # << >>
              /\ Range(hist[i].v) \subseteq Range(EnumAll(FieldIdOf(domain)))
        /\ \A i, j \in 1..Len(hist) :
              (hist[i].agg = hist[j].agg /\ hist[i].det = hist[j].det) =>
                  hist[i].v = hist[j].v

\* The same group was expanded twice with full detail.
C7_Witness ==
    /\ mode = "group"
    /\ Len(hist) = 2
    /\ hist[1].agg = hist[2].agg
    /\ hist[1].det /\ hist[2].det

\* The names of the leaf fields a group expands to, for either detail value.
ExpansionNames(d, a) ==
    {EnumToString(FieldIdOf(d), f) :
        f \in Range(Expand(d, a, TRUE)) \cup Range(Expand(d, a, FALSE))}

\* C8: Unit(Common) renders as the common field's name, Unit(FieldId) as the
\* leaf field's name, and Agg(group) as the group's own name, never as the
\* names of the fields it expands to for any detail value; so the default
\* list of the help text shows group names, not expansions.
C8_RenderProjection ==
    mode = "resolve" =>
        /\ \A i \in RenderSteps :
              LET o == hist[i].v
                  r == hist[i + 1].v
              IN  /\ (o.tag = "Unit" /\ o.f.kind = "Common") =>
                        r = EnumToString(CommonField, o.f.v)
                  /\ (o.tag = "Unit" /\ o.f.kind = "FieldId") =>
                        r = EnumToString(FieldIdOf(domain), o.f.v)
                  /\ o.tag = "Agg" =>
                        /\ r = EnumToString(AggFieldOf(domain), o.f.v)
                        /\ r \notin ExpansionNames(domain, o.f.v)
        /\ \A d \in DumpDomains :
              /\ Len(BuildLongAbout(d).default_fields) = Len(DefaultFields(d))
              /\ \A i \in 1..Len(DefaultFields(d)) :
                    DefaultFields(d)[i].tag = "Agg" =>
                        BuildLongAbout(d).default_fields[i] =
                            EnumToString(AggFieldOf(d), DefaultFields(d)[i].f.v)

\* A group of a subcommand's default list was rendered.
C8_Witness ==
    /\ mode = "resolve"
    /\ domain \in DumpDomains
    /\ Len(hist) >= 2
    /\ hist[1].k = "opt"
    /\ hist[1].v.tag = "Agg"
    /\ \E i \in 1..Len(DefaultFields(domain)) : DefaultFields(domain)[i] = hist[1].v
    /\ hist[2].k = "str"

Unrecognized(d, s) ==
    ~IsCommonName(s) /\ ~IsAggName(d, s) /\ ~IsFieldName(d, s)

BadArgs == {i \in 1..Len(argv) : Unrecognized(domain, argv[i])}

\* The request was rejected by the value parser: at a word that was handed
\* to it.
ByValueParser ==
    /\ pc = "rejected"
    /\ Len(parsed) < Len(argv)
    /\ ~(Len(parsed) >= 1 /\ num_args(domain) = "1")

\* A request is rejected as a whole before anything is expanded, by the
\* value parser with `text` and the first unrecognized token, or it yields
\* one complete sequence of leaf fields.
AllOrNothing(text) ==
    mode = "request" =>
        /\ BadArgs # {} =>
              /\ pc \in {"parse", "rejected"}
              /\ out = None
        /\ pc = "rejected" => out = None /\ fields = << >>
        /\ ByValueParser =>
              /\ BadArgs # {}
              /\ err = Format(text, argv[Min(BadArgs)])
        /\ pc \in {"parse", "matched"} => out = None /\ err = None
        /\ pc \in {"expanded", "dumped"} =>
              /\ BadArgs = {}
              /\ err = None
              /\ out.tag = "Some"
              /\ \A j \in 1..Len(out.v) : out.v[j].kind \in {"Common", "FieldId"}
              /\ (argv # << >> /\ ~opts.default /\ ~opts.everything) =>
                    /\ Len(fields) = Len(argv)
                    /\ Len(out.v) =
                          SegmentsLen(domain, fields, detail, Len(fields))

BothFieldsAndPattern == argv # << >> /\ opts.pattern # None

HelpWords(h) ==
    Range(h.common_fields) \cup Range(h.domain_fields)
        \cup Range(h.default_fields)
        \cup {Lit(h.aggregated[i].label) : i \in 1..Len(h.aggregated)}
        \cup UNION {Range(h.aggregated[i].includes) : i \in 1..Len(h.aggregated)}
        \cup UNION {{Lit(e[j]) : j \in 1..Len(e)} : e \in Range(h.examples)}

\* The long help texts the threads were returned, each with its domain.
HelpsReturned == UNION {Range(tgot[t]) : t \in Threads}

\* C12: the long help text of every domain contains the canonical name of
\* every leaf field of the domain's enumeration, the name of every common
\* field and the name of every group of the domain.
C12_HelpTextFresh ==
    mode = "lazy" =>
        \A g \in HelpsReturned :
            LET words == HelpWords(g[2])
            IN  /\ \A n \in Range(EnumNames(FieldIdOf(g[1]))) :
                      Lit(n) \in words
                /\ \A n \in Range(EnumNames(CommonField)) :
                      Lit(n) \in words
                /\ \A n \in Range(EnumNames(AggFieldOf(g[1]))) :
                      Lit(n) \in words

\* A thread was returned the long help texts of system, of btrfs and of
\* transport; the btrfs text holds the group's name "disk_usage" although
\* its label for the group is another word.
C12_Witness ==
    /\ mode = "lazy"
    /\ \E t \in Threads :
          /\ Len(tgot[t]) >= 8
          /\ tgot[t][1][1] = "system"
          /\ tgot[t][3][1] = "btrfs"
          /\ tgot[t][8][1] = "transport"
          /\ Lit("disk_usage") \in HelpWords(tgot[t][3][2])
          /\ \A i \in 1..Len(tgot[t][3][2].aggregated) :
                tgot[t][3][2].aggregated[i].label # "disk_usage"

\* The name of a leaf field of the output.
DumpFieldName(d, f) ==
    IF f.kind = "Common"
    THEN EnumToString(CommonField, f.v)
    ELSE EnumToString(FieldIdOf(d), f.v)

SystemScenario == <<Lit("datetime"), Lit("cpu"), Lit("hostname")>>

\* C13: in the system domain the tokens ["datetime", "cpu", "hostname"],
\* parsed and expanded with detail = false, yield exactly the leaf sequence
\* [datetime, cpu.usage_pct, cpu.user_pct, cpu.system_pct, hostname]; and
\* for both detail values the expansion of the cpu group never contains the
\* per-core index field cpu.idx.
C13_SystemEndToEnd ==
    (mode = "request" /\ domain = "system") =>
        /\ (argv = SystemScenario /\ opts = NoOpts /\ ~detail) =>
              /\ pc # "rejected"
              /\ pc \in {"expanded", "dumped"} =>
                    /\ out.v = << Common(<<"Datetime">>),
                                  FieldId(<<"Cpu", "UsagePct">>),
                                  FieldId(<<"Cpu", "UserPct">>),
                                  FieldId(<<"Cpu", "SystemPct">>),
                                  FieldId(<<"Hostname">>) >>
                    /\ [j \in 1..Len(out.v) |-> DumpFieldName(domain, out.v[j])]
                          = << Lit("datetime"), Lit("cpu.usage_pct"),
                               Lit("cpu.user_pct"), Lit("cpu.system_pct"),
                               Lit("hostname") >>
        /\ (pc \in {"expanded", "dumped"}
                /\ Unit(FieldId(<<"Cpu", "Idx">>)) \notin Range(fields)) =>
              FieldId(<<"Cpu", "Idx">>) \notin Range(out.v)

\* The scenario's request was parsed, expanded and dumped.
C13_Witness ==
    /\ mode = "request"
    /\ domain = "system"
    /\ argv = SystemScenario
    /\ opts = NoOpts
    /\ ~detail
    /\ pc = "dumped"
    /\ Len(out.v) = 5

\* The request asks for everything: --everything, or --default --detail.
AsksEverything == opts.everything \/ (opts.default /\ detail)

\* The leaf fields a domain's default list names directly.
DefaultUnits(d) ==
    {DefaultFields(d)[i].f :
        i \in {j \in 1..Len(DefaultFields(d)) : DefaultFields(d)[j].tag = "Unit"}}

\* The leaf fields of the full expansions of all groups of a domain.
AllGroupsFull(d) ==
    UNION {{FieldId(f) : f \in Range(Expand(d, a, TRUE))} :
              a \in Range(EnumAll(AggFieldOf(d)))}

C15_FieldsTakesTokenList ==
    (mode = "request" /\ argv # << >> /\ BadArgs = {} /\ opts.pattern = None) =>
        /\ pc # "rejected"
        /\ pc \in {"matched", "expanded", "dumped"} =>
              /\ Len(parsed) = Len(argv)
              /\ \A i \in 1..Len(argv) :
                    parsed[i] = from_str(domain, argv[i]).v

\* The cache of a domain's long help text is computed once its cell is
\* complete, and uncomputed before (nothing built yet, or a build running).
Computed(c) == c.state = "complete"

\* C16: the help-text cache of every domain is uncomputed or computed and
\* is monotonic: its only change of state is from uncomputed to computed,
\* made by the one build of the domain, and once computed it stays computed
\* with the same value in every later state (no reset, no rebuild).
C16_CacheMonotonic ==
    [][mode = "lazy" =>
          \A d \in DumpDomains :
              /\ Computed(cell[d]) =>
                    /\ Computed(cell'[d])
                    /\ cell'[d].value = cell[d].value
                    /\ builds'[d] = builds[d]
              /\ (~Computed(cell[d]) /\ Computed(cell'[d])) =>
                    /\ builds'[d] = 1
                    /\ cell'[d].value = BuildLongAbout(d)]_vars

\* The disk text is computed, was built once and has been returned to two
\* threads.
C16_Witness ==
    /\ mode = "lazy"
    /\ Computed(cell["disk"])
    /\ builds["disk"] = 1
    /\ \A t \in {1, 2} : Len(tgot[t]) >= 2 /\ tgot[t][2][1] = "disk"
    /\ cell["disk"].value = BuildLongAbout("disk")

\* C17: for every group of every domain, every member of the curated
\* expansion expand(false) is a member of the full expansion expand(true);
\* the per-core index field that the cpu group of system leaves out of its
\* full expansion is not in its curated expansion either.
C17_DetailMonotonic ==
    mode = "group" =>
        /\ \A i, j \in 1..Len(hist) :
              (hist[i].agg = hist[j].agg /\ ~hist[i].det /\ hist[j].det) =>
                  Range(hist[i].v) \subseteq Range(hist[j].v)
        /\ \A i \in 1..Len(hist) :
              (domain = "system" /\ hist[i].agg = V("Cpu")) =>
                  <<"Cpu", "Idx">> \notin Range(hist[i].v)

\* The cpu group of system was expanded with detail = false and with
\* detail = true, the second time to more fields.
C17_Witness ==
    /\ mode = "group"
    /\ domain = "system"
    /\ Len(hist) = 2
    /\ hist[1].agg = V("Cpu") /\ hist[2].agg = V("Cpu")
    /\ ~hist[1].det /\ hist[2].det
    /\ Len(hist[1].v) < Len(hist[2].v)

\* The help text of the domain says "--detail: no effect".
SaysNoEffect(d) == BuildLongAbout(d).detail = DetailNoEffect

\* C18: in the domains whose help text says "--detail: no effect" (disk,
\* btrfs, iface, network, transport) expand_fields gives the same result for
\* both detail values, whatever the list; in the other domains (system,
\* process, cgroup) some group has two different expansions.
C18_DetailNoEffect ==
    /\ {d \in DumpDomains : SaysNoEffect(d)} =
          {"disk", "btrfs", "iface", "network", "transport"}
    /\ (mode = "expand" /\ domain \in DumpDomains /\ out.tag = "Some") =>
          IF SaysNoEffect(domain)
          THEN out.v = expand_fields(domain, fields, ~detail)
          ELSE \E a \in Range(EnumAll(AggFieldOf(domain))) :
                  Expand(domain, a, TRUE) # Expand(domain, a, FALSE)

\* A disk list of three fields, two of them groups, was expanded with
\* detail = true.
C18_Witness ==
    /\ mode = "expand"
    /\ domain = "disk"
    /\ detail
    /\ out.tag = "Some"
    /\ Len(fields) = 3
    /\ Cardinality({i \in 1..3 : fields[i].tag = "Agg"}) = 2

\* C19: under fair scheduling every access of a thread to a long help
\* string returns, also when the thread arrives while another thread's
\* build of that string is running: no interleaving of the threads
\* deadlocks.
C19_AccessReturns ==
    \A t \in Threads :
        (mode = "lazy" /\ tpc[t] # "idle") ~> (mode = "lazy" /\ tpc[t] = "idle")

\* A thread waits for the system text while the thread that builds it has
\* made the string and is about to store it.
C19_Witness ==
    /\ mode = "lazy"
    /\ \E t1, t2 \in Threads :
          /\ tdom[t1] = "system" /\ tdom[t2] = "system"
          /\ tpc[t1] = "store"
          /\ tpc[t2] = "wait"
          /\ cell["system"].state = "running"

\* The group that a label of domain d's long help text resolves to with
\* from_str, if it resolves to a group.
LabelGroup(d, label) ==
    LET r == from_str(d, Lit(label))
    IN  IF r.tag = "Ok" /\ r.v.tag = "Agg" THEN Some(r.v.f.v) ELSE None

\* C20: in the long help text of every domain, every label listed under
\* "Aggregated fields" and every token after -f in the example commands
\* resolves with the domain's from_str, and a label resolves to the group
\* whose expand(false) is printed next to it.
C20_HelpTokensResolve ==
    mode = "lazy" =>
        \A g \in HelpsReturned :
            /\ \A i \in 1..Len(g[2].aggregated) :
                  /\ LabelGroup(g[1], g[2].aggregated[i].label) # None
                  /\ g[2].aggregated[i].includes =
                        join([v \in Range(EnumAll(FieldIdOf(g[1]))) |->
                                  EnumToString(FieldIdOf(g[1]), v)],
                             Expand(g[1],
                                    LabelGroup(g[1], g[2].aggregated[i].label).v,
                                    FALSE))
            /\ \A e \in Range(g[2].examples) :
                  \A j \in 1..Len(e) : from_str(g[1], Lit(e[j])).tag = "Ok"
====
